---- MODULE Spec2Model ----
(***************************************************************************)
(* Model of the 2D rectangle packing engine of src/src/packer/Packer.ts:   *)
(* the Box primitive and the Packer (preparation, greedy placement loop,   *)
(* free-space splitting/pruning and the fullness metric).                  *)
(*                                                                         *)
(* A Box is a record with the fields of the class.  The needRemove flags   *)
(* of the pending boxes are the variable needRemove (one flag per entry of *)
(* boxes).  The needRemove flags of the free boxes and the mark fields are *)
(* always overwritten before they are read inside one call (the flagged    *)
(* free boxes are filtered out before addPackedBox returns, and            *)
(* calculateFullness re-tags every free box first), so they are locals of  *)
(* the operators below.                                                    *)
(*                                                                         *)
(* Spec, SpecScen and SpecFull take pack() as one step.  SpecLoop takes   *)
(* it one iteration of its while loop at a time: pc is the position        *)
(* inside pack() and iters counts the executions of the loop body of the   *)
(* call.                                                                   *)
(***************************************************************************)
EXTENDS Integers, Sequences, FiniteSets, TLC

\* ---------------------------------------------------------------- bounds
MaxDim == 3
MaxBoxes == 2
MaxRepack == 1
MaxFullBoxes == 4

\* rectangle sides a caller may pass (non-positive ones included)
Dims == (0 - 1)..MaxDim
\* container sides
ContDims == 1..MaxDim

\* the containers and rectangle sizes of the documented scenarios
ScenContainers == {<<100, 100>>, <<3, 3>>, <<4, 2>>, <<2, 4>>, <<6, 2>>}
ScenSizes == {<<60, 60>>, <<50, 100>>, <<100, 100>>, <<2, 2>>, <<1, 4>>, <<3, 2>>, <<1, 1>>}

\* a container and rectangle sizes that leave a chain of free regions
FullContainers == {<<5, 5>>, <<4, 4>>}
FullSizes == {<<1, 4>>, <<2, 2>>, <<2, 3>>}

VARIABLES containerWidth, containerHeight, boxes, packedBoxes, freeBoxes,
          badBoxes, notPlacedBoxes, isPrepared, _fullness,
          resized, repacks, nextId, needRemove, pc, iters

vars == <<containerWidth, containerHeight, boxes, packedBoxes, freeBoxes,
          badBoxes, notPlacedBoxes, isPrepared, _fullness,
          resized, repacks, nextId, needRemove, pc, iters>>

\* ------------------------------------------------------------ arithmetic
Min(a, b) == IF a < b THEN a ELSE b
Max(a, b) == IF a > b THEN a ELSE b
Abs(a) == IF a < 0 THEN 0 - a ELSE a

RECURSIVE GCD(_, _)
GCD(a, b) == IF b = 0 THEN a ELSE GCD(b, a % b)

\* ------------------------------------------------------------------- Box
createFromSize(width, height, id) ==
  [width |-> width, height |-> height, left |-> 0, top |-> 0,
   right |-> width, bottom |-> height, id |-> id]

createFromCoord(left, top, right, bottom) ==
  [width |-> right - left, height |-> bottom - top, left |-> left, top |-> top,
   right |-> right, bottom |-> bottom, id |-> 0]

square(b) == b.width * b.height

isContained(a, b) ==
  a.left >= b.left /\ a.top >= b.top /\ a.right <= b.right /\ a.bottom <= b.bottom

\* isTouched with the comparisons made non-strict
isTouchedClosed(a, b) ==
  a.right >= b.left /\ a.left <= b.right /\ a.bottom >= b.top /\ a.top <= b.bottom

isTouched(a, b) ==
  a.right > b.left /\ a.left < b.right /\ a.bottom > b.top /\ a.top < b.bottom

isSeparated(a, b) ==
  ~(b.left >= a.right \/ b.right <= a.left \/ b.top >= a.bottom \/ b.bottom <= a.top)

\* ------------------------------------------------------- fullness values
\* The number 1 - inner/total as a reduced fraction; 0/0 is NaN.
NaN == [num |-> 0, den |-> 0]
Unknown == [num |-> 0 - 1, den |-> 1]
One == [num |-> 1, den |-> 1]

Ratio(inner, total) ==
  IF total = 0 THEN NaN
  ELSE LET n == total - inner
           g == GCD(Abs(n), Abs(total))
           s == IF total < 0 THEN 0 - 1 ELSE 1
       IN [num |-> s * (n \div g), den |-> s * (total \div g)]

\* ---------------------------------------------------------- preparation
isBadBoxNoSizeTest(box, cw, ch) ==
  \/ (box.width > cw /\ box.width > ch)
  \/ (box.height > cw /\ box.height > ch)

\* the predicate of filterBadBoxes: TRUE when the box goes to badBoxes
isBadBox(box, cw, ch) ==
  \/ (box.width > cw /\ box.width > ch)
  \/ (box.height > cw /\ box.height > ch)
  \/ (box.width <= 0 \/ box.height <= 0)

filterBadBoxes(bs, cw, ch) == SelectSeq(bs, LAMBDA b : ~isBadBox(b, cw, ch))

rejectedBoxes(bs, cw, ch) == SelectSeq(bs, LAMBDA b : isBadBox(b, cw, ch))

\* comparator of the sort in prepare(): negative when a goes before b
compareBoxes(a, b) ==
  IF a.width = b.width THEN b.height - a.height ELSE b.width - a.width

\* Array.prototype.sort is stable: x goes before the first element it
\* strictly precedes
RECURSIVE insertSorted(_, _)
insertSorted(x, s) ==
  IF s = <<>> THEN <<x>>
  ELSE IF compareBoxes(x, Head(s)) < 0 THEN <<x>> \o s
  ELSE <<Head(s)>> \o insertSorted(x, Tail(s))

RECURSIVE sortBoxes(_)
sortBoxes(s) ==
  IF s = <<>> THEN <<>>
  ELSE insertSorted(s[Len(s)], sortBoxes(SubSeq(s, 1, Len(s) - 1)))

\* --------------------------------------------------------------- scoring
commonIntervalLength(startA, endA, startB, endB) ==
  IF endA < startB \/ endB < startA THEN 0
  ELSE Min(endA, endB) - Max(startA, startB)

RECURSIVE neighbourScore(_, _, _, _, _, _)
neighbourScore(packed, k, left, top, right, bottom) ==
  IF k > Len(packed) THEN 0
  ELSE LET box == packed[k]
           v == IF box.left = right \/ box.right = left
                THEN commonIntervalLength(box.top, box.bottom, top, bottom) ELSE 0
           h == IF box.top = bottom \/ box.bottom = top
                THEN commonIntervalLength(box.left, box.right, left, right) ELSE 0
       IN v + h + neighbourScore(packed, k + 1, left, top, right, bottom)

calculateScore(packed, cw, ch, left, top, right, bottom) ==
  (IF left = 0 \/ right = cw THEN bottom - top ELSE 0)
  + (IF top = 0 \/ bottom = ch THEN right - left ELSE 0)
  + neighbourScore(packed, 1, left, top, right, bottom)

fitsWidthOnly(freeBox, w, h) == freeBox.width >= w

fitsStrict(freeBox, w, h) == freeBox.width > w /\ freeBox.height > h

\* the fit test of findBoxPosition for a w x h orientation
fits(freeBox, w, h) == freeBox.width >= w /\ freeBox.height >= h

\* tryOrientation that keeps the first orientation that fits
tryOrientationFirstFit(t, freeBox, w, h, packed, cw, ch) ==
  IF fits(freeBox, w, h) /\ t.mark < 0
  THEN [t EXCEPT !.left = freeBox.left, !.top = freeBox.top,
                 !.right = freeBox.left + w, !.bottom = freeBox.top + h,
                 !.width = w, !.height = h,
                 !.mark = calculateScore(packed, cw, ch, freeBox.left, freeBox.top,
                                         freeBox.left + w, freeBox.top + h)]
  ELSE t

\* one orientation of the loop body of findBoxPosition; t is the testBox
\* together with the running bestScore (field mark)
tryOrientation(t, freeBox, w, h, packed, cw, ch) ==
  IF fits(freeBox, w, h)
  THEN LET score == calculateScore(packed, cw, ch, freeBox.left, freeBox.top,
                                   freeBox.left + w, freeBox.top + h)
       IN IF score > t.mark
          THEN [t EXCEPT !.left = freeBox.left, !.top = freeBox.top,
                         !.right = freeBox.left + w, !.bottom = freeBox.top + h,
                         !.width = w, !.height = h, !.mark = score]
          ELSE t
  ELSE t

RECURSIVE scanFreeBoxes(_, _, _, _, _, _, _)
scanFreeBoxes(t, box, free, k, packed, cw, ch) ==
  IF k > Len(free) THEN t
  ELSE LET t1 == tryOrientation(t, free[k], box.width, box.height, packed, cw, ch)
           t2 == tryOrientation(t1, free[k], box.height, box.width, packed, cw, ch)
       IN scanFreeBoxes(t2, box, free, k + 1, packed, cw, ch)

\* findBoxPosition without testBox.id = box.id
findBoxPositionNoId(box, free, packed, cw, ch) ==
  scanFreeBoxes([width |-> 0, height |-> 0, left |-> 0, top |-> 0, right |-> 0,
                 bottom |-> 0, id |-> 0, mark |-> 0 - 1],
                box, free, 1, packed, cw, ch)

\* The testBox after findBoxPosition(box, testBox).  Its coordinates are
\* only read when mark > 0, and then they were set by this very call.
findBoxPosition(box, free, packed, cw, ch) ==
  scanFreeBoxes([width |-> 0, height |-> 0, left |-> 0, top |-> 0, right |-> 0,
                 bottom |-> 0, id |-> box.id, mark |-> 0 - 1],
                box, free, 1, packed, cw, ch)

\* ----------------------------------------------- free-space maintenance
addFreeBox(free, left, top, right, bottom) ==
  Append(free, createFromCoord(left, top, right, bottom))

\* splitFreeBox without the strip to the right of the rectangle
splitFreeBoxNoRight(free, freeBox, box) ==
  LET f1 == IF box.top > freeBox.top /\ box.top < freeBox.bottom
            THEN addFreeBox(free, freeBox.left, freeBox.top, freeBox.right, box.top)
            ELSE free
      f2 == IF box.bottom < freeBox.bottom
            THEN addFreeBox(f1, freeBox.left, box.bottom, freeBox.right, freeBox.bottom)
            ELSE f1
      f3 == IF box.left > freeBox.left /\ box.left < freeBox.right
            THEN addFreeBox(f2, freeBox.left, freeBox.top, box.left, freeBox.bottom)
            ELSE f2
  IN f3

\* freeBoxes after splitFreeBox(freeBox, box)
splitFreeBox(free, freeBox, box) ==
  LET f1 == IF box.top > freeBox.top /\ box.top < freeBox.bottom
            THEN addFreeBox(free, freeBox.left, freeBox.top, freeBox.right, box.top)
            ELSE free
      f2 == IF box.bottom < freeBox.bottom
            THEN addFreeBox(f1, freeBox.left, box.bottom, freeBox.right, freeBox.bottom)
            ELSE f1
      f3 == IF box.left > freeBox.left /\ box.left < freeBox.right
            THEN addFreeBox(f2, freeBox.left, freeBox.top, box.left, freeBox.bottom)
            ELSE f2
      f4 == IF box.right < freeBox.right
            THEN addFreeBox(f3, box.right, freeBox.top, freeBox.right, freeBox.bottom)
            ELSE f3
  IN f4

intrudesNegated(freeBox, box) == ~isSeparated(freeBox, box)

intrudesNever(freeBox, box) == FALSE

\* only a free box that starts at the rectangle's own corner is split
intrudesAtCorner(freeBox, box) ==
  isSeparated(freeBox, box) /\ freeBox.left = box.left /\ freeBox.top = box.top

\* the test of addPackedBox for a free box that has to be split
intrudes(freeBox, box) == isSeparated(freeBox, box)

\* needRemove flags, as long as the list they belong to
padFlags(flags, n) == [i \in 1..n |-> IF i <= Len(flags) THEN flags[i] ELSE FALSE]

\* first loop of addPackedBox; the for-of also visits the boxes pushed by
\* splitFreeBox during the iteration
RECURSIVE splitPass(_, _, _, _)
splitPass(free, flags, k, box) ==
  IF k > Len(free) THEN [free |-> free, flags |-> flags]
  ELSE IF intrudes(free[k], box)
  THEN LET f == splitFreeBox(free, free[k], box)
       IN splitPass(f, [padFlags(flags, Len(f)) EXCEPT ![k] = TRUE], k + 1, box)
  ELSE splitPass(free, flags, k + 1, box)

\* the inner loop without the test for box2 contained in box1
RECURSIVE pruneInnerOneWay(_, _, _, _)
pruneInnerOneWay(free, flags, i, j) ==
  IF j > Len(free) THEN flags
  ELSE IF flags[j] THEN pruneInnerOneWay(free, flags, i, j + 1)
  ELSE IF isContained(free[i], free[j]) THEN [flags EXCEPT ![i] = TRUE]
  ELSE pruneInnerOneWay(free, flags, i, j + 1)

\* inner loop of the containment pass, for box1 = free[i]
RECURSIVE pruneInner(_, _, _, _)
pruneInner(free, flags, i, j) ==
  IF j > Len(free) THEN flags
  ELSE IF flags[j] THEN pruneInner(free, flags, i, j + 1)
  ELSE IF isContained(free[i], free[j]) THEN [flags EXCEPT ![i] = TRUE]
  ELSE IF isContained(free[j], free[i])
  THEN pruneInner(free, [flags EXCEPT ![j] = TRUE], i, j + 1)
  ELSE pruneInner(free, flags, i, j + 1)

\* outer loop of the containment pass
RECURSIVE pruneOuter(_, _, _)
pruneOuter(free, flags, i) ==
  IF i > Len(free) - 1 THEN flags
  ELSE IF flags[i] THEN pruneOuter(free, flags, i + 1)
  ELSE pruneOuter(free, pruneInner(free, flags, i, i + 1), i + 1)

keepUnflagged(free, flags) ==
  LET idx == {i \in 1..Len(free) : ~flags[i]}
      RECURSIVE pick(_)
      pick(k) == IF k > Len(free) THEN <<>>
                 ELSE IF k \in idx THEN <<free[k]>> \o pick(k + 1) ELSE pick(k + 1)
  IN pick(1)

\* freeBoxes and packedBoxes after addPackedBox(box)
addPackedBox(free, packed, box) ==
  LET sp == splitPass(free, padFlags(<<>>, Len(free)), 1, box)
      fl == pruneOuter(sp.free, sp.flags, 1)
  IN [free |-> keepUnflagged(sp.free, fl), packed |-> Append(packed, box)]

\* -------------------------------------------------------- placement loop
\* the for loop of pack(): best is [score, index, box], index 0 for -1
RECURSIVE selectBest(_, _, _, _, _, _, _, _)
selectBest(best, bs, removed, i, free, packed, cw, ch) ==
  IF i > Len(bs) THEN best
  ELSE IF removed[i] THEN selectBest(best, bs, removed, i + 1, free, packed, cw, ch)
  ELSE LET t == findBoxPosition(bs[i], free, packed, cw, ch)
       IN IF t.mark > best.score
          THEN selectBest([score |-> t.mark, index |-> i,
                           box |-> [width |-> t.width, height |-> t.height,
                                    left |-> t.left, top |-> t.top, right |-> t.right,
                                    bottom |-> t.bottom, id |-> t.id]],
                          bs, removed, i + 1, free, packed, cw, ch)
          ELSE selectBest(best, bs, removed, i + 1, free, packed, cw, ch)

markRemovedNot(flags, i) == flags

\* boxes[bestBoxIndex].needRemove = true
markRemoved(flags, i) == [flags EXCEPT ![i] = TRUE]

\* the while loop of pack()
RECURSIVE packLoop(_, _, _, _, _, _)
packLoop(bs, removed, packed, free, cw, ch) ==
  IF Len(bs) = Len(packed)
  THEN [removed |-> removed, packed |-> packed, free |-> free]
  ELSE LET best == selectBest([score |-> 0, index |-> 0, box |-> <<>>],
                              bs, removed, 1, free, packed, cw, ch)
       IN IF best.index = 0
          THEN [removed |-> removed, packed |-> packed, free |-> free]
          ELSE LET a == addPackedBox(free, packed, best.box)
               IN packLoop(bs, markRemoved(removed, best.index),
                           a.packed, a.free, cw, ch)

\* the boxes the last loop of pack() pushes to notPlacedBoxes
collectNotPlaced(bs, removed) ==
  LET RECURSIVE pick(_)
      pick(k) == IF k > Len(bs) THEN <<>>
                 ELSE IF removed[k] THEN pick(k + 1) ELSE <<bs[k]>> \o pick(k + 1)
  IN pick(1)

\* -------------------------------------------------------------- fullness
BOTTOM_RIGHT_MARK == 2147483647

isBottomRightByLeft(box, cw, ch) == box.left = cw /\ box.bottom = ch

\* the free boxes that get the outer tag
isBottomRight(box, cw, ch) == box.right = cw /\ box.bottom = ch

\* the region tags calculateFullness leaves on the free boxes; st is
\* [marks, nextMark], (i, j) the position of the two nested loops
RECURSIVE markTouched(_, _, _, _)
markTouched(free, st, i, j) ==
  IF i > Len(free) - 1 THEN st.marks
  ELSE IF j > Len(free) THEN markTouched(free, st, i + 1, i + 2)
  ELSE IF isTouched(free[i], free[j])
  THEN LET m == Max(st.marks[i], st.marks[j])
           mark == IF m = 0 THEN st.nextMark ELSE m
       IN markTouched(free,
                      [marks |-> [st.marks EXCEPT ![i] = mark, ![j] = mark],
                       nextMark |-> IF m = 0 THEN st.nextMark + 1 ELSE st.nextMark],
                      i, j + 1)
  ELSE markTouched(free, st, i, j + 1)

freeMarks(free, cw, ch) ==
  markTouched(free,
              [marks |-> [i \in 1..Len(free) |->
                            IF isBottomRight(free[i], cw, ch)
                            THEN BOTTOM_RIGHT_MARK ELSE 0],
               nextMark |-> 1],
              1, 2)

RECURSIVE sumSquares(_, _)
sumSquares(s, k) == IF k > Len(s) THEN 0 ELSE square(s[k]) + sumSquares(s, k + 1)

RECURSIVE innerSquareFrom(_, _, _)
innerSquareFrom(free, marks, k) ==
  IF k > Len(free) THEN 0
  ELSE (IF marks[k] # BOTTOM_RIGHT_MARK THEN square(free[k]) ELSE 0)
       + innerSquareFrom(free, marks, k + 1)

innerSquare(free, cw, ch) == innerSquareFrom(free, freeMarks(free, cw, ch), 1)

boxSquare(packed) == sumSquares(packed, 1)

\* the value calculateFullness() stores in _fullness
calculateFullness(free, packed, cw, ch) ==
  Ratio(innerSquare(free, cw, ch), boxSquare(packed) + innerSquare(free, cw, ch))

\* the value the fullness accessor returns in the current state
fullness ==
  IF _fullness = Unknown
  THEN calculateFullness(freeBoxes, packedBoxes, containerWidth, containerHeight)
  ELSE _fullness

\* --------------------------------------------------------------- actions
Init ==
  /\ containerWidth \in ContDims
  /\ containerHeight \in ContDims
  /\ boxes = <<>>
  /\ packedBoxes = <<>>
  /\ freeBoxes = <<>>
  /\ badBoxes = <<>>
  /\ notPlacedBoxes = <<>>
  /\ isPrepared = FALSE
  /\ _fullness = Unknown
  /\ resized = FALSE
  /\ repacks = 0
  /\ nextId = 1
  /\ needRemove = <<>>
  /\ pc = "idle"
  /\ iters = 0

\* resizeContainer that also calls reset()
ResizeContainerResets(width, height) ==
  /\ pc = "idle"
  /\ containerWidth' = width
  /\ containerHeight' = height
  /\ resized' = TRUE
  /\ packedBoxes' = <<>>
  /\ freeBoxes' = <<>>
  /\ badBoxes' = <<>>
  /\ notPlacedBoxes' = <<>>
  /\ _fullness' = [num |-> 0 - 1, den |-> 1]
  /\ isPrepared' = FALSE
  /\ UNCHANGED <<boxes, repacks, nextId, needRemove, pc, iters>>

ResizeContainer(width, height) ==
  /\ pc = "idle"
  /\ containerWidth' = width
  /\ containerHeight' = height
  /\ resized' = TRUE
  /\ UNCHANGED <<boxes, packedBoxes, freeBoxes, badBoxes, notPlacedBoxes,
                 isPrepared, _fullness, repacks, nextId, needRemove, pc, iters>>

\* clear that only calls reset()
ClearKeepsBoxes ==
  /\ pc = "idle"
  /\ packedBoxes' = <<>>
  /\ freeBoxes' = <<>>
  /\ badBoxes' = <<>>
  /\ notPlacedBoxes' = <<>>
  /\ _fullness' = [num |-> 0 - 1, den |-> 1]
  /\ isPrepared' = FALSE
  /\ repacks' = 0
  /\ nextId' = 1
  /\ UNCHANGED <<containerWidth, containerHeight, resized, pc, iters, boxes, needRemove>>

Clear ==
  /\ pc = "idle"
  /\ boxes' = <<>>
  /\ needRemove' = <<>>
  /\ packedBoxes' = <<>>
  /\ freeBoxes' = <<>>
  /\ badBoxes' = <<>>
  /\ notPlacedBoxes' = <<>>
  /\ _fullness' = Unknown
  /\ isPrepared' = FALSE
  /\ repacks' = 0
  /\ nextId' = 1
  /\ UNCHANGED <<containerWidth, containerHeight, resized, pc, iters>>

\* addBox that leaves isPrepared alone
AddBoxKeepsPrepared(width, height) ==
  /\ pc = "idle"
  /\ nextId <= MaxBoxes
  /\ boxes' = Append(boxes, [width |-> (IF width < height THEN width ELSE height),
                             height |-> (IF width > height THEN width ELSE height),
                             left |-> 0, top |-> 0,
                             right |-> (IF width < height THEN width ELSE height),
                             bottom |-> (IF width > height THEN width ELSE height),
                             id |-> nextId])
  /\ needRemove' = Append(needRemove, FALSE)
  /\ nextId' = nextId + 1
  /\ UNCHANGED <<containerWidth, containerHeight, packedBoxes, freeBoxes, badBoxes,
                 notPlacedBoxes, _fullness, resized, repacks, pc, iters, isPrepared>>

\* the caller numbers the rectangles it adds: nextId is the id it passes;
\* limit bounds the number of rectangles added since construction or clear()
addBox(limit, width, height) ==
  /\ pc = "idle"
  /\ nextId <= limit
  /\ boxes' = Append(boxes, createFromSize(Min(width, height), Max(width, height), nextId))
  /\ needRemove' = Append(needRemove, FALSE)
  /\ isPrepared' = FALSE
  /\ nextId' = nextId + 1
  /\ UNCHANGED <<containerWidth, containerHeight, packedBoxes, freeBoxes, badBoxes,
                 notPlacedBoxes, _fullness, resized, repacks, pc, iters>>

AddBox(width, height) == addBox(MaxBoxes, width, height)

\* the state prepare() leaves
prepare ==
  [boxes |-> sortBoxes(filterBadBoxes(boxes, containerWidth, containerHeight)),
   badBoxes |-> rejectedBoxes(boxes, containerWidth, containerHeight),
   packedBoxes |-> <<>>,
   freeBoxes |-> addFreeBox(<<>>, 0, 0, containerWidth, containerHeight),
   notPlacedBoxes |-> <<>>,
   fullness |-> Unknown]

\* the state pack() starts its loop from
beforeLoop ==
  IF ~isPrepared THEN prepare
  ELSE [boxes |-> boxes, badBoxes |-> badBoxes, packedBoxes |-> packedBoxes,
        freeBoxes |-> freeBoxes, notPlacedBoxes |-> notPlacedBoxes,
        fullness |-> _fullness]

noneRemoved(bs) == [i \in 1..Len(bs) |-> FALSE]

\* pack() as one step
Pack ==
  /\ pc = "idle"
  /\ isPrepared => repacks < MaxRepack
  /\ LET p == beforeLoop
         r == packLoop(p.boxes, noneRemoved(p.boxes), p.packedBoxes,
                       p.freeBoxes, containerWidth, containerHeight)
     IN /\ boxes' = p.boxes
        /\ badBoxes' = p.badBoxes
        /\ packedBoxes' = r.packed
        /\ freeBoxes' = r.free
        /\ notPlacedBoxes' = p.notPlacedBoxes \o collectNotPlaced(p.boxes, r.removed)
        /\ _fullness' = p.fullness
        /\ needRemove' = noneRemoved(p.boxes)
  /\ isPrepared' = TRUE
  /\ resized' = (isPrepared /\ resized)
  /\ repacks' = IF isPrepared THEN repacks + 1 ELSE 0
  /\ UNCHANGED <<containerWidth, containerHeight, nextId, pc, iters>>

\* get fullness
ReadFullness ==
  /\ pc = "idle"
  /\ _fullness' = fullness
  /\ UNCHANGED <<containerWidth, containerHeight, boxes, packedBoxes, freeBoxes,
                 badBoxes, notPlacedBoxes, isPrepared, resized, repacks, nextId,
                 needRemove, pc, iters>>

Next ==
  \/ \E w \in Dims, h \in Dims : AddBox(w, h)
  \/ Pack
  \/ \E w \in ContDims, h \in ContDims : ResizeContainer(w, h)
  \/ Clear
  \/ ReadFullness

Spec == Init /\ [][Next]_vars

\* the same engine driven with the containers and sizes of the scenarios
InitScen ==
  /\ \E c \in ScenContainers : containerWidth = c[1] /\ containerHeight = c[2]
  /\ boxes = <<>>
  /\ packedBoxes = <<>>
  /\ freeBoxes = <<>>
  /\ badBoxes = <<>>
  /\ notPlacedBoxes = <<>>
  /\ isPrepared = FALSE
  /\ _fullness = Unknown
  /\ resized = FALSE
  /\ repacks = 0
  /\ nextId = 1
  /\ needRemove = <<>>
  /\ pc = "idle"
  /\ iters = 0

NextScen ==
  \/ \E sz \in ScenSizes : AddBox(sz[1], sz[2])
  \/ Pack
  \/ \E c \in ScenContainers : ResizeContainer(c[1], c[2])
  \/ Clear
  \/ ReadFullness

SpecScen == InitScen /\ [][NextScen]_vars

\* engines that are filled, packed and asked for their fullness
InitFull ==
  /\ \E c \in FullContainers : containerWidth = c[1] /\ containerHeight = c[2]
  /\ boxes = <<>>
  /\ packedBoxes = <<>>
  /\ freeBoxes = <<>>
  /\ badBoxes = <<>>
  /\ notPlacedBoxes = <<>>
  /\ isPrepared = FALSE
  /\ _fullness = Unknown
  /\ resized = FALSE
  /\ repacks = 0
  /\ nextId = 1
  /\ needRemove = <<>>
  /\ pc = "idle"
  /\ iters = 0

AddFullBox == \E sz \in FullSizes : addBox(MaxFullBoxes, sz[1], sz[2])

NextFull ==
  \/ AddFullBox
  \/ Pack
  \/ ReadFullness

SpecFull == InitFull /\ [][NextFull]_vars

\* ------------------------------------- pack() one loop iteration at a time
\* entry of pack(): prepare if needed, then reach the while loop
PackStart ==
  /\ pc = "idle"
  /\ isPrepared => repacks < MaxRepack
  /\ LET p == beforeLoop
     IN /\ boxes' = p.boxes
        /\ badBoxes' = p.badBoxes
        /\ packedBoxes' = p.packedBoxes
        /\ freeBoxes' = p.freeBoxes
        /\ notPlacedBoxes' = p.notPlacedBoxes
        /\ _fullness' = p.fullness
        /\ needRemove' = noneRemoved(p.boxes)
  /\ isPrepared' = TRUE
  /\ resized' = (isPrepared /\ resized)
  /\ repacks' = IF isPrepared THEN repacks + 1 ELSE 0
  /\ pc' = "loop"
  /\ iters' = 0
  /\ UNCHANGED <<containerWidth, containerHeight, nextId>>

\* the result of the for loop of pack() in the current state
bestNow ==
  selectBest([score |-> 0, index |-> 0, box |-> <<>>], boxes, needRemove, 1,
             freeBoxes, packedBoxes, containerWidth, containerHeight)

\* the loop condition holds and the scan finds a placement
canIterate == pc = "loop" /\ Len(boxes) # Len(packedBoxes) /\ bestNow.index # 0

\* one iteration of the while loop that commits a rectangle
PackIterate ==
  /\ canIterate
  /\ LET a == addPackedBox(freeBoxes, packedBoxes, bestNow.box)
     IN /\ packedBoxes' = a.packed
        /\ freeBoxes' = a.free
  /\ needRemove' = markRemoved(needRemove, bestNow.index)
  /\ iters' = iters + 1
  /\ UNCHANGED <<containerWidth, containerHeight, boxes, badBoxes, notPlacedBoxes,
                 isPrepared, _fullness, resized, repacks, nextId, pc>>

\* the loop ends (by its condition, or by break after an iteration that
\* found no position), the unplaced boxes are collected and pack() returns
PackFinish ==
  /\ pc = "loop"
  /\ Len(boxes) = Len(packedBoxes) \/ bestNow.index = 0
  /\ notPlacedBoxes' = notPlacedBoxes \o collectNotPlaced(boxes, needRemove)
  /\ needRemove' = noneRemoved(boxes)
  /\ iters' = IF Len(boxes) = Len(packedBoxes) THEN iters ELSE iters + 1
  /\ pc' = "idle"
  /\ UNCHANGED <<containerWidth, containerHeight, boxes, packedBoxes, freeBoxes,
                 badBoxes, isPrepared, _fullness, resized, repacks, nextId>>

NextLoop ==
  \/ \E w \in Dims, h \in Dims : AddBox(w, h)
  \/ PackStart
  \/ PackIterate
  \/ PackFinish
  \/ \E w \in ContDims, h \in ContDims : ResizeContainer(w, h)
  \/ Clear
  \/ ReadFullness

SpecLoop == Init /\ [][NextLoop]_vars

\* pack() is synchronous: once entered it runs to its return. Weak fairness
\* of both loop steps; canIterate is ENABLED <<PackIterate>>_vars written out
\* (a commit always lengthens packedBoxes).
SpecLoopFair ==
  /\ SpecLoop
  /\ []<>(~canIterate) \/ []<><<PackIterate>>_vars
  /\ WF_vars(PackFinish)

\* ================================================================ claims
Range(s) == {s[i] : i \in 1..Len(s)}

Ids(s) == {s[i].id : i \in 1..Len(s)}

\* C1: in every reachable state (after any sequence of addBox, pack,
\* resizeContainer and clear) no two distinct entries of the placed list
\* overlap: Box.isSeparated is false of every such pair.
NoPlacedOverlap ==
  \A i \in 1..Len(packedBoxes) : \A j \in 1..Len(packedBoxes) :
    i # j => ~isSeparated(packedBoxes[i], packedBoxes[j])

\* two rectangles placed side by side, sharing an edge
TwoPlacedShareEdge ==
  /\ Len(packedBoxes) = 2
  /\ packedBoxes[1].right = packedBoxes[2].left
  /\ packedBoxes[1].top < packedBoxes[2].bottom
  /\ packedBoxes[2].top < packedBoxes[1].bottom

withinContainer(b) ==
  /\ 0 <= b.left /\ b.left < b.right /\ b.right <= containerWidth
  /\ 0 <= b.top /\ b.top < b.bottom /\ b.bottom <= containerHeight

\* C2: while the container has not been resized since the engine was last
\* prepared, every placed rectangle lies within the container:
\* 0 <= left < right <= containerWidth and 0 <= top < bottom <= containerHeight.
PlacedWithinContainer ==
  ~resized => \A b \in Range(packedBoxes) : withinContainer(b)

\* after pack(), a placed rectangle reaches the far corner of the container
PlacedReachesFarCorner ==
  /\ isPrepared /\ ~resized
  /\ Len(packedBoxes) = 2
  /\ \E b \in Range(packedBoxes) :
       b.right = containerWidth /\ b.bottom = containerHeight /\ b.left > 0

\* C3: while the container has not been resized since the engine was last
\* prepared, the areas of the placed rectangles sum to at most
\* containerWidth * containerHeight.
PlacedAreaBounded ==
  ~resized => boxSquare(packedBoxes) <= containerWidth * containerHeight

\* after pack(), the placed rectangles fill the container completely
PlacedFillContainer ==
  /\ isPrepared /\ ~resized
  /\ Len(packedBoxes) = 2
  /\ boxSquare(packedBoxes) = containerWidth * containerHeight

\* the step is a pack() that directly follows a pack(): the engine is
\* prepared and was not resized since, and the first pack() was the one
\* that prepared it
SecondPack == isPrepared /\ ~resized /\ repacks = 0 /\ Pack

\* C4: pack() is idempotent: a pack() that directly follows a pack() (no
\* addBox, resizeContainer or clear in between) leaves the placed list and
\* the fullness as they were.
PackIdempotent ==
  [][SecondPack => (packedBoxes' = packedBoxes /\ fullness' = fullness)]_vars

\* the value is a number of the interval [0,1]
inUnitInterval(f) == f.den > 0 /\ 0 <= f.num /\ f.num <= f.den

\* C5: the value read from the fullness accessor is within [0,1] in every
\* reachable state.
FullnessInUnitInterval == inUnitInterval(fullness)

\* C6: when the placed area and the inner (non-outer) free area are both
\* zero, the fullness accessor returns 1.
ZeroAreasFullnessOne ==
  (boxSquare(packedBoxes) = 0
     /\ innerSquare(freeBoxes, containerWidth, containerHeight) = 0)
  => fullness = One

\* the engine was built (or cleared), given exactly two rectangles, both
\* w x h, and packed; the container was not resized since
TwoAddedAndPacked(w, h) ==
  /\ nextId = 3 /\ isPrepared /\ ~resized /\ repacks = 0
  /\ Len(boxes) + Len(badBoxes) = 2
  /\ \A b \in Range(boxes) \cup Range(badBoxes) :
       b.width = Min(w, h) /\ b.height = Max(w, h)

ScenarioD == containerWidth = 100 /\ containerHeight = 100 /\ TwoAddedAndPacked(60, 60)

onePlacedOneUnplaced ==
  /\ Len(packedBoxes) = 1 /\ packedBoxes[1].id = 1
  /\ Len(notPlacedBoxes) = 1 /\ notPlacedBoxes[1].id = 2
  /\ badBoxes = <<>>

ScenarioB ==
  /\ containerWidth % 2 = 0
  /\ TwoAddedAndPacked(containerWidth \div 2, containerHeight)

\* C8: in a W x H container (W even), after adding two rectangles of size
\* (W/2) x H and pack(), both are placed, they tile the container exactly
\* (inside it, not overlapping, no free region left), and fullness is 1.
ScenarioBTiles ==
  ScenarioB =>
    /\ Ids(packedBoxes) = {1, 2} /\ Len(packedBoxes) = 2
    /\ \A b \in Range(packedBoxes) : withinContainer(b)
    /\ ~isSeparated(packedBoxes[1], packedBoxes[2])
    /\ boxSquare(packedBoxes) = containerWidth * containerHeight
    /\ freeBoxes = <<>>
    /\ notPlacedBoxes = <<>> /\ badBoxes = <<>>
    /\ fullness = One

\* scenario B has run in the 100x100 container and the fullness was read
ScenarioBRead == ScenarioB /\ containerWidth = 100 /\ _fullness # Unknown

\* the rectangle fits the empty container in neither orientation
fitsNeitherWay(b) ==
  /\ ~(b.width <= containerWidth /\ b.height <= containerHeight)
  /\ ~(b.height <= containerWidth /\ b.width <= containerHeight)

\* C9: a rectangle that fits the empty container in neither orientation is
\* in rejected after the pack() that follows its addition, and is neither
\* placed nor unplaced.
UnfitRejected ==
  [][(~isPrepared /\ Pack) =>
       \A b \in Range(boxes) :
         fitsNeitherWay(b) =>
           /\ b \in Range(badBoxes')
           /\ b.id \notin Ids(packedBoxes')
           /\ b.id \notin Ids(notPlacedBoxes')]_vars

nonPositive(b) == b.width <= 0 \/ b.height <= 0

\* C10: a rectangle added with width <= 0 or height <= 0 is in rejected after
\* the pack() that follows its addition, and after any pack() no such
\* rectangle is in placed or unplaced.
NonPositiveRejected ==
  [][Pack =>
       /\ \A b \in Range(boxes) :
            nonPositive(b) =>
              /\ b \in Range(badBoxes')
              /\ b.id \notin Ids(packedBoxes')
              /\ b.id \notin Ids(notPlacedBoxes')
       /\ \A b \in Range(packedBoxes') \cup Range(notPlacedBoxes') : ~nonPositive(b)]_vars

\* pack() has rejected a rectangle with a non-positive side and placed
\* another one
NonPositiveInRejected ==
  /\ isPrepared
  /\ \E b \in Range(badBoxes) : nonPositive(b)
  /\ Len(packedBoxes) = 1

\* some free region accommodates the rectangle, as stored or swapped
hasPlacement(b) ==
  \E f \in Range(freeBoxes) : fits(f, b.width, b.height) \/ fits(f, b.height, b.width)

\* C11: when pack() has returned, a pending rectangle is in unplaced only if
\* no free region accommodates it in its stored or swapped orientation.
UnplacedHasNoPlacement ==
  isPrepared => \A b \in Range(notPlacedBoxes) : ~hasPlacement(b)

\* the same for the pack() that ran the preparation only (holds)
UnplacedHasNoPlacementFirstPack ==
  (isPrepared /\ repacks = 0) => \A b \in Range(notPlacedBoxes) : ~hasPlacement(b)

\* the step changes the stored container size: only resizeContainer does
ResizeStep == containerWidth' # containerWidth \/ containerHeight' # containerHeight

\* the step is an addBox: only addBox takes a new id
AddStep == nextId' = nextId + 1

\* the step is a clear() of an engine that holds something
ClearStep ==
  /\ pc = "idle" /\ boxes' = <<>> /\ nextId' = 1
  /\ (boxes # <<>> \/ isPrepared)

\* C12: addBox, resizeContainer and clear each set the cached fullness back
\* to the unknown sentinel, so the next read recomputes it.
MutationsInvalidateFullness ==
  [][(AddStep \/ ResizeStep \/ ClearStep) => _fullness' = Unknown]_vars

\* the rectangles of s in the order of their ids (the order they were added in)
RECURSIVE byId(_)
byId(S) ==
  IF S = {} THEN <<>>
  ELSE LET b == CHOOSE x \in S : \A y \in S : x.id <= y.id
       IN <<b>> \o byId(S \ {b})

\* what pack() returns on a fresh cw x ch engine given the rectangles bs
freshPack(bs, cw, ch) ==
  LET b0 == sortBoxes(filterBadBoxes(bs, cw, ch))
      r == packLoop(b0, noneRemoved(b0), <<>>, addFreeBox(<<>>, 0, 0, cw, ch), cw, ch)
  IN [packedBoxes |-> r.packed,
      notPlacedBoxes |-> collectNotPlaced(b0, r.removed),
      badBoxes |-> rejectedBoxes(bs, cw, ch)]

\* C13: a pack() after resizeContainer(w, h), with no addBox in between,
\* leaves the placed, unplaced and rejected collections a fresh w x h engine
\* given the same rectangles would produce.
PackAfterResizeIsFresh ==
  [][(isPrepared /\ resized /\ Pack) =>
       LET f == freshPack(byId(Range(boxes) \cup Range(badBoxes)),
                          containerWidth, containerHeight)
       IN /\ packedBoxes' = f.packedBoxes
          /\ notPlacedBoxes' = f.notPlacedBoxes
          /\ badBoxes' = f.badBoxes]_vars

\* C14: resizeContainer changes only the stored container size: the pending,
\* placed, free-space, rejected and unplaced collections (and the prepared
\* flag and the cached fullness) are left as they were.
ResizeChangesOnlySize ==
  [][ResizeStep => UNCHANGED <<boxes, packedBoxes, freeBoxes, badBoxes,
                               notPlacedBoxes, isPrepared, _fullness, needRemove>>]_vars

\* the container was shrunk and a placed rectangle now sticks out of it
PlacedOutsideShrunkContainer ==
  /\ resized /\ isPrepared
  /\ \E b \in Range(packedBoxes) : b.right > containerWidth \/ b.bottom > containerHeight

\* C15: after clear() the pending count is 0, the placed, free-space,
\* rejected and unplaced collections are empty and the engine is unprepared;
\* a pack() that follows returns an empty placed list.
ClearEmptiesEngine ==
  [][/\ Clear => /\ Len(boxes') = 0
                 /\ packedBoxes' = <<>> /\ freeBoxes' = <<>>
                 /\ badBoxes' = <<>> /\ notPlacedBoxes' = <<>>
                 /\ ~isPrepared'
     /\ (nextId = 1 /\ Pack) => packedBoxes' = <<>>]_vars

\* nothing was added since the construction or the last clear(), and pack()
\* has run on the engine: nothing is placed
PackedAfterClear ==
  /\ nextId = 1 /\ isPrepared /\ resized
  /\ packedBoxes = <<>>
  /\ freeBoxes = <<createFromCoord(0, 0, containerWidth, containerHeight)>>

noDuplicateIds(s) == \A i \in 1..Len(s) : \A j \in 1..Len(s) : s[i].id = s[j].id => i = j

\* C16: addBox leaves the engine unprepared, and a pack() of an unprepared
\* engine starts from the empty container over the rectangles the engine
\* holds: each of them ends exactly once in placed, unplaced or rejected, the
\* first placement is at the origin, and nothing of an earlier placement
\* is kept.
PackAfterAddPrepares ==
  [][/\ AddStep => ~isPrepared'
     /\ (~isPrepared /\ Pack) =>
          /\ noDuplicateIds(packedBoxes' \o notPlacedBoxes' \o badBoxes')
          /\ Ids(packedBoxes' \o notPlacedBoxes' \o badBoxes') = Ids(boxes)
          /\ packedBoxes' # <<>> =>
               (packedBoxes'[1].left = 0 /\ packedBoxes'[1].top = 0)
          /\ \A b \in Range(packedBoxes') : withinContainer(b)']_vars

\* both rectangles the engine holds are placed, the second one next to the
\* first
TwoAddedBothPlaced ==
  /\ isPrepared /\ repacks = 0 /\ nextId = 3
  /\ Ids(packedBoxes) = {1, 2}

flagged(rm) == {i \in 1..Len(rm) : rm[i]}

\* C17: pack() terminates: the loop body runs at most as many times as there
\* are pending rectangles, every iteration that does not end the loop
\* commits exactly one rectangle and consumes exactly one pending entry, and
\* a pack() that has started returns.
PackTerminates ==
  /\ [][(PackIterate \/ PackFinish) => iters' <= Len(boxes)]_vars
  /\ [][PackIterate =>
          /\ Len(packedBoxes') = Len(packedBoxes) + 1
          /\ \E i \in 1..Len(boxes) :
               /\ ~needRemove[i]
               /\ flagged(needRemove') = flagged(needRemove) \cup {i}
               /\ packedBoxes'[Len(packedBoxes')].id = boxes[i].id]_vars
  /\ (pc = "loop") ~> (pc = "idle")

\* pack() returned after as many iterations as there are pending rectangles
PackRanFullLoop ==
  /\ pc = "idle" /\ isPrepared
  /\ Len(boxes) = MaxBoxes /\ iters = Len(boxes)
  /\ Len(packedBoxes) = Len(boxes)

\* every rectangle the engine holds
heldBoxes ==
  Range(boxes) \cup Range(packedBoxes) \cup Range(freeBoxes)
    \cup Range(badBoxes) \cup Range(notPlacedBoxes)

closedIntersect(a, b) ==
  a.left <= b.right /\ b.left <= a.right /\ a.top <= b.bottom /\ b.top <= a.bottom

interiorOverlap(a, b) ==
  a.left < b.right /\ b.left < a.right /\ a.top < b.bottom /\ b.top < a.bottom

\* C18 as stated: isSeparated(a, b) is true exactly when the closed
\* intervals of a and b intersect on both axes.
SeparatedIsClosedIntersection ==
  \A a \in heldBoxes : \A b \in heldBoxes :
    isSeparated(a, b) <=> closedIntersect(a, b)

\* C18: isSeparated(a, b) is true exactly when the open intervals of a and b
\* overlap on both axes (strict comparisons), so it agrees with isTouched on
\* every pair and is false on rectangles that share only an edge or a corner.
SeparatedIsInteriorOverlap ==
  \A a \in heldBoxes : \A b \in heldBoxes :
    /\ isSeparated(a, b) <=> interiorOverlap(a, b)
    /\ isSeparated(a, b) <=> isTouched(a, b)

\* a placed rectangle and a free region share an edge and nothing else
PlacedSharesEdgeWithFree ==
  \E a \in Range(packedBoxes) : \E f \in Range(freeBoxes) :
    /\ closedIntersect(a, f) /\ ~interiorOverlap(a, f)
    /\ (a.right = f.left /\ a.top < f.bottom /\ f.top < a.bottom)

\* the candidates of the current loop iteration: a pending rectangle not yet
\* committed in this pack(), a free region, an orientation that fits it
candidates ==
  {c \in [i : {i \in 1..Len(boxes) : ~needRemove[i]},
          f : Range(freeBoxes),
          swap : BOOLEAN] :
     LET w == IF c.swap THEN boxes[c.i].height ELSE boxes[c.i].width
         h == IF c.swap THEN boxes[c.i].width ELSE boxes[c.i].height
     IN c.f.width >= w /\ c.f.height >= h}

\* the score of placing candidate c at the top-left corner of its region
candidateScore(c) ==
  LET w == IF c.swap THEN boxes[c.i].height ELSE boxes[c.i].width
      h == IF c.swap THEN boxes[c.i].width ELSE boxes[c.i].height
  IN calculateScore(packedBoxes, containerWidth, containerHeight,
                    c.f.left, c.f.top, c.f.left + w, c.f.top + h)

\* C20: at every commit of the placement loop the committed rectangle and
\* position is a candidate, and no candidate (pending rectangle, free
\* region, fitting orientation) scores higher against the state before the
\* commit.
CommitHasBestScore ==
  [][PackIterate =>
       LET b == packedBoxes'[Len(packedBoxes')]
           score == calculateScore(packedBoxes, containerWidth, containerHeight,
                                   b.left, b.top, b.right, b.bottom)
       IN /\ \E c \in candidates :
               /\ boxes[c.i].id = b.id
               /\ b.left = c.f.left /\ b.top = c.f.top
               /\ candidateScore(c) = score
          /\ \A c \in candidates : candidateScore(c) <= score]_vars

\* the second commit of a pack() placed its rectangle turned by 90 degrees
SecondCommitSwapped ==
  /\ pc = "loop" /\ iters = 2 /\ Len(packedBoxes) = 2
  /\ \E b \in Range(boxes) :
       /\ b.id = packedBoxes[2].id
       /\ b.width # b.height
       /\ packedBoxes[2].right - packedBoxes[2].left = b.height

\* the rectangle the loop iteration has just committed
committed == packedBoxes'[Len(packedBoxes')]

\* C21: after every commit every surviving free region is empty: no free
\* region overlaps the interior of a placed rectangle; a free region the
\* new rectangle does not intrude on stays, and every new free region is a
\* part of an intruded one that the rectangle does not cover.
FreeRegionsAreEmpty ==
  /\ [](\A f \in Range(freeBoxes) : \A b \in Range(packedBoxes) : ~interiorOverlap(f, b))
  /\ [][PackIterate =>
          \A f \in Range(freeBoxes') :
            /\ ~interiorOverlap(f, committed)
            /\ \/ f \in Range(freeBoxes)
               \/ \E g \in Range(freeBoxes) :
                    interiorOverlap(g, committed) /\ isContained(f, g) /\ f # g]_vars

\* two rectangles are placed and free regions are left, one of them a strip
\* cut by the second commit
TwoCommitsLeaveFreeRegions ==
  /\ pc = "loop" /\ iters = 2 /\ Len(packedBoxes) = 2
  /\ \E f \in Range(freeBoxes) :
       f.left = packedBoxes[2].right \/ f.top = packedBoxes[2].bottom

\* the unit cell with top-left corner (x, y)
cell(x, y) == createFromCoord(x, y, x + 1, y + 1)

\* C22: on an engine whose container was not resized since it was last
\* prepared, after prepare() and after every commit every unit cell of the
\* container that is not inside a placed rectangle lies inside a free region.
FreeRegionsCoverUnoccupied ==
  (isPrepared /\ ~resized) =>
    \A x \in 0..(containerWidth - 1) : \A y \in 0..(containerHeight - 1) :
      \/ \E b \in Range(packedBoxes) : isContained(cell(x, y), b)
      \/ \E f \in Range(freeBoxes) : isContained(cell(x, y), f)

\* a commit left cells free to the right of and below the rectangle
FreeCellsRightAndBelow ==
  /\ isPrepared /\ ~resized /\ pc = "loop" /\ iters >= 1
  /\ \E b \in Range(packedBoxes) :
       b.right < containerWidth /\ b.bottom < containerHeight

\* the parts of free box g around the rectangle b, as splitFreeBox cuts them
strips(g, b) ==
  (IF b.top > g.top /\ b.top < g.bottom
   THEN {createFromCoord(g.left, g.top, g.right, b.top)} ELSE {})
  \cup (IF b.bottom < g.bottom
        THEN {createFromCoord(g.left, b.bottom, g.right, g.bottom)} ELSE {})
  \cup (IF b.left > g.left /\ b.left < g.right
        THEN {createFromCoord(g.left, g.top, b.left, g.bottom)} ELSE {})
  \cup (IF b.right < g.right
        THEN {createFromCoord(b.right, g.top, g.right, g.bottom)} ELSE {})

\* the free regions before the pruning pass of the commit
beforePruning ==
  {g \in Range(freeBoxes) : ~interiorOverlap(g, committed)}
    \cup UNION {strips(g, committed) : g \in {h \in Range(freeBoxes) : interiorOverlap(h, committed)}}

\* C23: after every commit no surviving free region is contained in a
\* different surviving free region, and every region the pruning pass
\* discarded is contained in a region that survives.
FreeRegionsNotRedundant ==
  /\ [](\A i \in 1..Len(freeBoxes) : \A j \in 1..Len(freeBoxes) :
          i # j => ~isContained(freeBoxes[i], freeBoxes[j]))
  /\ [][PackIterate =>
          /\ Range(freeBoxes') \subseteq beforePruning
          /\ \A g \in beforePruning : \E f \in Range(freeBoxes') : isContained(g, f)]_vars

\* a commit whose pruning pass discarded a strip
PruningDiscardedStrip ==
  /\ pc = "loop" /\ iters = 2 /\ Len(packedBoxes) = 2
  /\ Len(freeBoxes) = 2
  /\ freeBoxes[1].right = containerWidth /\ freeBoxes[1].bottom = containerHeight
  /\ freeBoxes[2].right = containerWidth /\ freeBoxes[2].bottom = containerHeight
  /\ freeBoxes[1].left = 1 /\ freeBoxes[1].top = 0
  /\ freeBoxes[2].left = 0 /\ freeBoxes[2].top = 2

\* the indices of the free regions connected to one of S by a chain of
\* pairwise-touching free regions
RECURSIVE touchClosure(_)
touchClosure(S) ==
  LET T == S \cup {j \in 1..Len(freeBoxes) :
                     \E i \in S : isTouched(freeBoxes[i], freeBoxes[j])}
  IN IF T = S THEN S ELSE touchClosure(T)

\* the free regions reachable from the outer region
outerReachable ==
  touchClosure({i \in 1..Len(freeBoxes) :
                  freeBoxes[i].right = containerWidth /\ freeBoxes[i].bottom = containerHeight})

\* C24: in the fullness computation every free region connected by a chain
\* of touching free regions to a region that ends at the container's
\* bottom-right corner gets the outer tag, and its area is not counted as
\* inner area.
ReachableRegionsTaggedOuter ==
  LET marks == freeMarks(freeBoxes, containerWidth, containerHeight)
  IN /\ \A i \in outerReachable : marks[i] = BOTTOM_RIGHT_MARK
     /\ innerSquare(freeBoxes, containerWidth, containerHeight)
          = sumSquares([k \in 1..Len(freeBoxes) |->
                          IF k \in outerReachable
                          THEN createFromCoord(0, 0, 0, 0) ELSE freeBoxes[k]], 1)

\* placed rectangle p is pending rectangle b, as stored or turned
placementOf(p, b) ==
  /\ p.id = b.id
  /\ \/ p.right - p.left = b.width /\ p.bottom - p.top = b.height
     \/ p.right - p.left = b.height /\ p.bottom - p.top = b.width

\* C25: every placed rectangle carries the id of a pending rectangle and
\* has its dimensions in one of the two orientations; after a pack() that
\* ran a fresh preparation no pending rectangle accounts for two placed
\* ones; a commit leaves the rectangles placed before it as they were.
PlacedAreThePending ==
  /\ [](\A p \in Range(packedBoxes) : \E b \in Range(boxes) : placementOf(p, b))
  /\ []((isPrepared /\ repacks = 0) => noDuplicateIds(packedBoxes))
  /\ [][PackIterate =>
          /\ Len(packedBoxes') = Len(packedBoxes) + 1
          /\ \A k \in 1..Len(packedBoxes) : packedBoxes'[k] = packedBoxes[k]]_vars

\* a first pack() has returned with two rectangles placed, one of them
\* turned by 90 degrees
TwoPlacedOneTurned ==
  /\ pc = "idle" /\ isPrepared /\ repacks = 0 /\ ~resized
  /\ Len(packedBoxes) = 2
  /\ \E p \in Range(packedBoxes) : \E b \in Range(boxes) :
       p.id = b.id /\ b.width # b.height /\ p.right - p.left = b.height

\* how often a rectangle with this id occurs in s
occurrences(s, id) == Cardinality({k \in 1..Len(s) : s[k].id = id})

\* C26: no rectangle is lost or duplicated: when a pack() has returned, each
\* rectangle added since construction or the last clear() occurs exactly
\* once across the placed, unplaced and rejected collections.
EveryRectangleOnce ==
  (isPrepared /\ pc = "idle") =>
    \A id \in 1..(nextId - 1) :
      occurrences(packedBoxes \o notPlacedBoxes \o badBoxes, id) = 1

\* C27: the fullness cache is coherent: the value the accessor returns is
\* the value calculateFullness computes from the current placed list, free
\* regions and container size.
FullnessCacheCoherent ==
  fullness = calculateFullness(freeBoxes, packedBoxes, containerWidth, containerHeight)

====
